---------------------------- MODULE Spec2Model ----------------------------
(***************************************************************************)
(* A model of pcam.py: uniquify, get_dataloaders, get_model, train, test.  *)
(*                                                                         *)
(* Strings are sequences of one-character strings, so that os.path and     *)
(* str operations are computed character by character as Python does.     *)
(* The file system is a set of directories and a map from file paths to    *)
(* their contents.  None is Python's None where a string is expected,      *)
(* NoneObject where an object is expected.                                 *)
(***************************************************************************)
EXTENDS Integers, Sequences, FiniteSets, TLC

VARIABLES
    pc,          \* position of the running call
    dirs,        \* file system: the directories that exist
    files,       \* file system: file path -> content
    u_path,      \* uniquify: the argument
    u_result,    \* uniquify: the returned path
    dl_args,     \* get_dataloaders: the arguments
    dl_result,   \* get_dataloaders: the returned (train_loader, val_loader, test_loader)
    gm_args,     \* get_model: the arguments
    gm_model,    \* get_model: the local variable model
    gm_applied,  \* get_model: the head-replacement branches executed
    gm_error,    \* get_model: the exception raised
    t_args,      \* train: the arguments
    t_model,     \* train: the model object (class name, aux_logits)
    epoch,       \* train: the loop variable epoch (0-based)
    b,           \* train: batches taken from the loader of the current pass
    i,           \* train: the step counter i
    batch_ops,   \* train: the operations done on the current batch, in order
    log,         \* train: the steps completed so far, in order
    optimizer_steps,  \* train: calls of optimizer.step()
    scheduler_steps,  \* train: calls of scheduler.step()
    sink,        \* train: the series appended to run[...]
    metrics,     \* train: the epochs whose train and val metrics are bound (0: unbound)
    save_ckpt_path,   \* train: the local variable save_ckpt_path
    save_ckpt_folder, \* train: the local variable save_ckpt_folder
    t_error,     \* train: the exception raised
    created,     \* train: the paths the current run created
    run_no,      \* the number of the current call of train
    saved,       \* the checkpoint paths written by the completed calls
    te_args,     \* test: the arguments
    te_b,        \* test: batches taken from test_loader
    preds_list,  \* test: the local variable preds_list
    labels_list, \* test: the local variable labels_list
    loss_arr,    \* test: the local variable loss_arr
    accuracy,    \* test: the state of the MulticlassAccuracy monitor
    save_outputs_path,  \* test: the local variable save_outputs_path
    save_metrics_path,  \* test: the local variable save_metrics_path
    te_error     \* test: the exception raised

None == <<"None">>
NoneObject == [isNone |-> TRUE]
NoError == ""

fsVars == <<dirs, files>>
uVars == <<u_path, u_result>>
dlVars == <<dl_args, dl_result>>
gmVars == <<gm_args, gm_model, gm_applied, gm_error>>
tRunVars ==
    <<t_model, epoch, b, i, batch_ops, log, optimizer_steps, scheduler_steps,
      sink, metrics, save_ckpt_path, save_ckpt_folder, t_error, created>>
tVars == <<t_args, tRunVars, run_no, saved>>
teVars ==
    <<te_args, te_b, preds_list, labels_list, loss_arr, accuracy,
      save_outputs_path, save_metrics_path, te_error>>
vars == <<pc, fsVars, uVars, dlVars, gmVars, tVars, teVars>>

\* what a call leaves alone: the variables of the other functions
exceptUniquify == <<dlVars, gmVars, tVars, teVars>>
exceptDataloaders == <<uVars, gmVars, tVars, teVars>>
exceptModel == <<uVars, dlVars, tVars, teVars>>
exceptTrain == <<uVars, dlVars, gmVars, teVars>>
exceptTest == <<uVars, dlVars, gmVars, tVars>>

uIdle == u_path = None /\ u_result = None
dlIdle == dl_args = NoneObject /\ dl_result = NoneObject
gmIdle ==
    /\ gm_args = NoneObject /\ gm_model = NoneObject
    /\ gm_applied = <<>> /\ gm_error = NoError
fsEmpty == dirs = {} /\ files = <<>>
EmptySink == [loss |-> <<>>, acc |-> <<>>, auc |-> <<>>]
tRunIdle ==
    /\ t_model = NoneObject /\ epoch = 0 /\ b = 0 /\ i = 0
    /\ batch_ops = <<>> /\ log = <<>>
    /\ optimizer_steps = 0 /\ scheduler_steps = 0
    /\ sink = EmptySink /\ metrics = [train |-> 0, val |-> 0]
    /\ save_ckpt_path = None /\ save_ckpt_folder = None
    /\ t_error = NoError /\ created = {}
tIdle == t_args = NoneObject /\ tRunIdle /\ run_no = 0 /\ saved = <<>>
NoAccuracy == [num_correct |-> 0, num_total |-> 0]
teIdle ==
    /\ te_args = NoneObject /\ te_b = 0
    /\ preds_list = <<>> /\ labels_list = <<>> /\ loss_arr = <<>>
    /\ accuracy = NoAccuracy
    /\ save_outputs_path = None /\ save_metrics_path = None
    /\ te_error = NoError

-----------------------------------------------------------------------------
(* Bounds of the model *)

MaxSuffix == 3        \* numbered variants of a path that may already exist
MaxDense == 11        \* longest run path, path_1, ..., path_k that already exists
MaxPathLen == 3       \* length of the generated uniquify arguments
MaxBatchSize == 3     \* largest batch_size of the generated calls
MaxEpochs == 2        \* largest num_epochs of the generated calls
MaxTrainBatches == 2  \* most batches in train_loader
MaxValBatches == 2    \* most batches in val_loader
MaxLogPeriods == 2    \* train_loader lengths up to MaxLogPeriods * LogEvery + 1
MaxRuns == 3          \* most calls of train in a row
MaxSamples == 3       \* most samples in the test set

-----------------------------------------------------------------------------
(* Strings *)

Digits == <<"0", "1", "2", "3", "4", "5", "6", "7", "8", "9">>

RECURSIVE str(_)
\* str(n) of a natural number: its decimal digits
str(n) ==
    IF n < 10 THEN <<Digits[n + 1]>>
    ELSE str(n \div 10) \o <<Digits[(n % 10) + 1]>>

\* s.rfind(c) as a 1-based index, 0 when c does not occur
rfind(s, c) ==
    LET hits == {k \in 1..Len(s) : s[k] = c}
    IN  IF hits = {} THEN 0 ELSE CHOOSE k \in hits : \A h \in hits : h <= k

\* s.find(c) as a 1-based index, 0 when c does not occur
find(s, c) ==
    LET hits == {k \in 1..Len(s) : s[k] = c}
    IN  IF hits = {} THEN 0 ELSE CHOOSE k \in hits : \A h \in hits : k <= h

\* os.path.splitext(p): <<root, ext>>.  The extension starts at the last dot
\* of the last path component, unless only dots precede it in the component.
splitext(p) ==
    LET sepIndex == rfind(p, "/")
        dotIndex == rfind(p, ".")
    IN  IF dotIndex > sepIndex
           /\ \E k \in (sepIndex + 1)..(dotIndex - 1) : p[k] # "."
        THEN <<SubSeq(p, 1, dotIndex - 1), SubSeq(p, dotIndex, Len(p))>>
        ELSE <<p, <<>> >>

\* os.path.join(head, tail)
join(head, tail) ==
    IF Len(tail) > 0 /\ tail[1] = "/" THEN tail
    ELSE IF Len(head) = 0 \/ head[Len(head)] = "/" THEN head \o tail
    ELSE head \o <<"/">> \o tail

\* the number of parts of s.split(".")
splitCount(s) == Cardinality({k \in 1..Len(s) : s[k] = "."}) + 1

\* s.split(".")[0]: the text before the first dot
splitDot0(s) ==
    IF find(s, ".") = 0 THEN s ELSE SubSeq(s, 1, find(s, ".") - 1)

\* s.split(".")[1]: the text between the first and the second dot
\* (only called when splitCount(s) >= 2; otherwise Python raises IndexError)
splitDot1(s) ==
    LET rest == SubSeq(s, find(s, ".") + 1, Len(s))
    IN  splitDot0(rest)

-----------------------------------------------------------------------------
(* File system *)

\* os.path.exists(path)
exists(path) == path \in dirs \/ path \in DOMAIN files

\* the proper ancestors of a path: its prefixes that end before a separator
Ancestors(path) ==
    {SubSeq(path, 1, k - 1) : k \in {h \in 2..Len(path) : path[h] = "/"}}

\* the directory a file path lies in ("" for a bare file name)
dirname(path) ==
    IF rfind(path, "/") = 0 THEN <<>> ELSE SubSeq(path, 1, rfind(path, "/") - 1)

\* the directories after os.makedirs(path)
makedirs(ds, path) == ds \cup {path} \cup Ancestors(path)

\* a file can be created at path when its directory exists
Writable(ds, path) == dirname(path) = <<>> \/ dirname(path) \in ds

-----------------------------------------------------------------------------
(* uniquify *)

\* the k-th candidate of the loop: filename + "_" + str(counter) + extension
Numbered(filename, extension, counter) ==
    filename \o <<"_">> \o str(counter) \o extension

RECURSIVE uniquifyLoopAccumulating(_, _, _, _)
uniquifyLoopAccumulating(filename, extension, path, counter) ==
    IF ~exists(path) THEN path
    ELSE uniquifyLoopAccumulating(filename, extension,
                                  Numbered(splitext(path)[1], extension, counter),
                                  counter + 1)

RECURSIVE uniquifyLoop(_, _, _, _)
\* the while loop of uniquify, from the state (path, counter)
uniquifyLoop(filename, extension, path, counter) ==
    IF ~exists(path) THEN path
    ELSE uniquifyLoop(filename, extension,
                      Numbered(filename, extension, counter), counter + 1)

uniquifyUnchecked(path) == path

\* uniquify(path)
uniquify(path) ==
    uniquifyLoop(splitext(path)[1], splitext(path)[2], path, 1)

\* a call of uniquify on the current file system
uniquify_call ==
    /\ pc = "uniquify"
    /\ u_result' = uniquify(u_path)
    /\ pc' = "uniquify_returned"
    /\ UNCHANGED <<fsVars, u_path, exceptUniquify>>

\* the arguments of the generated calls: every string up to MaxPathLen over
\* a letter, the extension separator and the path separator
PathChars == {"a", ".", "/"}
PathInputs ==
    UNION {[1..n -> PathChars] : n \in 0..MaxPathLen}

\* the documented example: models/ResNet-18_lr5_epoch10
ExampleFolder ==
    <<"m","o","d","e","l","s","/","R","e","s","N","e","t","-","1","8",
      "_","l","r","5","_","e","p","o","c","h","1","0">>

\* paths near p that a file system may hold: p itself, its numbered variants,
\* and two look-alikes (the number after the extension, an accumulated suffix)
Nearby(p) ==
    {p} \cup {Numbered(splitext(p)[1], splitext(p)[2], k) : k \in 1..MaxSuffix}
        \cup {p \o <<"_", "1">>,
              Numbered(splitext(p)[1] \o <<"_", "1">>, splitext(p)[2], 2)}

\* p, p_1, ..., p_n all exist
Dense(p, n) ==
    {p} \cup {Numbered(splitext(p)[1], splitext(p)[2], k) : k \in 1..n}

InitUniquify ==
    /\ pc = "uniquify"
    /\ u_path \in PathInputs \cup {ExampleFolder}
    /\ \/ dirs \in SUBSET Nearby(u_path)
       \/ \E n \in 0..MaxDense : dirs = Dense(u_path, n)
    /\ files = <<>>
    /\ u_result = None
    /\ dlIdle /\ gmIdle /\ tIdle /\ teIdle

NextUniquify == uniquify_call

SpecUniquify == InitUniquify /\ [][NextUniquify]_vars

\* C2: uniquify returns its argument when that does not exist, and otherwise
\* <stem>_k<ext> for the smallest k >= 1 that does not exist, <stem> and <ext>
\* being those of the argument (<ext> empty, or a dot followed by a
\* dot-free, separator-free text); the result never exists; the documented
\* example yields models/ResNet-18_lr5_epoch10_1.
C2_UniquifyFirstFree ==
    pc = "uniquify_returned" =>
        LET stem == splitext(u_path)[1]
            ext == splitext(u_path)[2]
        IN  /\ ~exists(u_result)
            /\ u_path = stem \o ext
            /\ ext # <<>> => /\ ext[1] = "."
                             /\ \A k \in 2..Len(ext) : ext[k] \notin {".", "/"}
            /\ ~exists(u_path) => u_result = u_path
            /\ exists(u_path) =>
                  \E k \in 1..(Cardinality(dirs) + 1) :
                      /\ u_result = stem \o <<"_">> \o str(k) \o ext
                      /\ \A j \in 1..(k - 1) :
                             exists(stem \o <<"_">> \o str(j) \o ext)
            /\ (u_path = ExampleFolder /\ exists(ExampleFolder)
                    /\ ~exists(ExampleFolder \o <<"_", "1">>))
                  => u_result = ExampleFolder \o <<"_", "1">>

\* a call that had to skip path and path_1, on a path with an extension
C2_Witness ==
    /\ pc = "uniquify_returned"
    /\ u_path = <<"a", ".", "a">>
    /\ exists(u_path) /\ exists(<<"a", "_", "1", ".", "a">>)
    /\ u_result = <<"a", "_", "2", ".", "a">>

-----------------------------------------------------------------------------
(* get_dataloaders *)

preprocess_list == <<"ToTensor", "Resize">>

augment_list(augment) ==
    IF augment THEN <<"RandomHorizontalFlip", "RandomVerticalFlip">> ELSE <<>>

normalize_list == <<"Normalize">>

\* transforms.Compose(preprocess_list + augment_list + normalize_list)
train_transform(augment) ==
    preprocess_list \o augment_list(augment) \o normalize_list

testval_transformAugmented(augment) ==
    preprocess_list \o augment_list(augment) \o normalize_list

\* transforms.Compose(preprocess_list + normalize_list)
testval_transform(augment) ==
    preprocess_list \o normalize_list

\* PCAM(root, split, download, transform)
PCAM(a, split, transform) ==
    [root |-> a.data_path, split |-> split, download |-> a.download,
     transform |-> transform]

\* DataLoader(dataset, batch_size, shuffle)
DataLoader(dataset, a) ==
    [dataset |-> dataset, batch_size |-> a.batch_size, shuffle |-> a.shuffle]

\* the returned triple (train_loader, val_loader, test_loader)
get_dataloaders(a) ==
    LET train_loader ==
            IF a.train
            THEN DataLoader(PCAM(a, "train", train_transform(a.augment)), a)
            ELSE NoneObject
        val_loader ==
            IF a.train
            THEN DataLoader(PCAM(a, "val", testval_transform(a.augment)), a)
            ELSE NoneObject
        test_loader ==
            DataLoader(PCAM(a, "test", testval_transform(a.augment)), a)
    IN  [train_loader |-> train_loader, val_loader |-> val_loader,
         test_loader |-> test_loader]

\* a call of get_dataloaders; a dataset that cannot be read raises in the
\* first PCAM constructor and nothing is returned
get_dataloaders_call ==
    /\ pc = "get_dataloaders"
    /\ IF dl_args.reachable
       THEN /\ dl_result' = get_dataloaders(dl_args)
            /\ pc' = "get_dataloaders_returned"
       ELSE /\ dl_result' = NoneObject
            /\ pc' = "get_dataloaders_raised"
    /\ UNCHANGED <<fsVars, dl_args, exceptDataloaders>>

ResizeInputs == {96, 224}

InitDataloaders ==
    /\ pc = "get_dataloaders"
    /\ dl_args \in [data_path : {<<"d">>}, batch_size : 1..MaxBatchSize,
                    train : BOOLEAN, shuffle : BOOLEAN, download : BOOLEAN,
                    resize : ResizeInputs, augment : BOOLEAN,
                    reachable : BOOLEAN]
    /\ dl_result = NoneObject
    /\ fsEmpty /\ uIdle /\ gmIdle /\ tIdle /\ teIdle

NextDataloaders == get_dataloaders_call

SpecDataloaders == InitDataloaders /\ [][NextDataloaders]_vars

Flips == {"RandomHorizontalFlip", "RandomVerticalFlip"}

HasFlip(loader) ==
    \E k \in 1..Len(loader.dataset.transform) :
        loader.dataset.transform[k] \in Flips

\* C8: with train = false the train and validation iterators are null and
\* the test iterator is not; with train = true none is null; the validation
\* and test transforms never contain a flip, whatever the augment flag.
C8_LoadersAndAugment ==
    pc = "get_dataloaders_returned" =>
        /\ ~dl_args.train =>
              /\ dl_result.train_loader = NoneObject
              /\ dl_result.val_loader = NoneObject
              /\ dl_result.test_loader # NoneObject
        /\ dl_args.train =>
              /\ dl_result.train_loader # NoneObject /\ dl_result.train_loader.dataset.split = "train"
              /\ dl_result.val_loader # NoneObject /\ dl_result.val_loader.dataset.split = "val"
              /\ dl_result.test_loader # NoneObject
        /\ dl_result.test_loader.dataset.split = "test"
        /\ ~HasFlip(dl_result.test_loader)
        /\ dl_result.val_loader # NoneObject => ~HasFlip(dl_result.val_loader)

\* a training call with augmentation: the train transform has the flips
C8_Witness ==
    /\ pc = "get_dataloaders_returned"
    /\ dl_args.train /\ dl_args.augment
    /\ HasFlip(dl_result.train_loader)
    /\ ~HasFlip(dl_result.val_loader)

-----------------------------------------------------------------------------
(* get_model *)

num_classes == 2

\* model_dir: architecture name -> the class of the constructed model
\* (model.__class__.__name__ of alexnet, vgg16, vgg11, googlenet,
\* inception_v3, resnet18, densenet161, swin_v2_b)
model_dir ==
    [n \in {"AlexNet", "VGG-16", "VGG-11", "GoogleNet", "Inception-v3",
            "ResNet-18", "DenseNet-161", "SWIN-v2-B"} |->
        CASE n = "AlexNet" -> "AlexNet"
          [] n \in {"VGG-16", "VGG-11"} -> "VGG"
          [] n = "GoogleNet" -> "GoogLeNet"
          [] n = "Inception-v3" -> "Inception3"
          [] n = "ResNet-18" -> "ResNet"
          [] n = "DenseNet-161" -> "DenseNet"
          [] n = "SWIN-v2-B" -> "SwinTransformer"]

\* a parameterised layer: the attribute of the model it hangs under, its
\* index inside that attribute (-1 when the attribute is the layer itself),
\* the width of its output when it is a linear layer (0 otherwise), whether
\* its weights are the pretrained ones, and requires_grad of its parameters
Layer(attr, idx, out, pretrained, requires_grad) ==
    [attr |-> attr, idx |-> idx, out_features |-> out,
     pretrained |-> pretrained, requires_grad |-> requires_grad]

\* nn.Linear(in_features, out_features): fresh weights, requires_grad = True
Linear(attr, idx, out) == Layer(attr, idx, out, FALSE, TRUE)

\* model_dir[model_name](pretrained=True): the layers of the pretrained model
Pretrained(cls) ==
    CASE cls = "AlexNet" ->
            {Layer("features", 0, 0, TRUE, TRUE),
             Layer("classifier", 1, 4096, TRUE, TRUE),
             Layer("classifier", 4, 4096, TRUE, TRUE),
             Layer("classifier", 6, 1000, TRUE, TRUE)}
      [] cls = "VGG" ->
            {Layer("features", 0, 0, TRUE, TRUE),
             Layer("classifier", 0, 4096, TRUE, TRUE),
             Layer("classifier", 3, 4096, TRUE, TRUE),
             Layer("classifier", 6, 1000, TRUE, TRUE)}
      [] cls = "GoogLeNet" ->
            {Layer("conv1", 0, 0, TRUE, TRUE),
             Layer("inception5b", 0, 0, TRUE, TRUE),
             Layer("fc", -1, 1000, TRUE, TRUE)}
      [] cls = "Inception3" ->
            {Layer("Conv2d_1a_3x3", 0, 0, TRUE, TRUE),
             Layer("AuxLogits", 0, 1000, TRUE, TRUE),
             Layer("Mixed_7c", 0, 0, TRUE, TRUE),
             Layer("fc", -1, 1000, TRUE, TRUE)}
      [] cls = "ResNet" ->
            {Layer("conv1", 0, 0, TRUE, TRUE),
             Layer("layer4", 0, 0, TRUE, TRUE),
             Layer("fc", -1, 1000, TRUE, TRUE)}
      [] cls = "DenseNet" ->
            {Layer("features", 0, 0, TRUE, TRUE),
             Layer("classifier", -1, 1000, TRUE, TRUE)}
      [] cls = "SwinTransformer" ->
            {Layer("features", 0, 0, TRUE, TRUE),
             Layer("norm", -1, 0, TRUE, TRUE),
             Layer("head", -1, 1000, TRUE, TRUE)}

\* for param in model.parameters(): param.requires_grad = False
Freeze(layers) ==
    {[l EXCEPT !.requires_grad = FALSE] : l \in layers}

HasAttr(layers, attr) == \E l \in layers : l.attr = attr

\* model.<attr> = <new layers>: the layers under attr are dropped
SetAttr(layers, attr, new) ==
    {l \in layers : l.attr # attr} \cup new

\* model.<attr>[-1] = nn.Linear(..., out): the last layer under attr is replaced
SetLast(layers, attr, out) ==
    LET last == CHOOSE l \in layers :
                    /\ l.attr = attr
                    /\ \A o \in layers : o.attr = attr => o.idx <= l.idx
    IN  (layers \ {last}) \cup {Linear(attr, last.idx, out)}

\* the branch of the if / elif chain that the class name selects (the chain
\* is the same under all_linears and under its else)
HeadBranchWithoutSwin(cls) ==
    IF cls = "AlexNet" THEN "AlexNet"
    ELSE IF cls = "VGG" THEN "VGG"
    ELSE IF cls = "DenseNet" THEN "DenseNet"
    ELSE IF cls = "VisionTransformer" THEN "VisionTransformer"
    ELSE "fc"

HeadBranch(cls) ==
    IF cls = "AlexNet" THEN "AlexNet"
    ELSE IF cls = "VGG" THEN "VGG"
    ELSE IF cls = "DenseNet" THEN "DenseNet"
    ELSE IF cls = "VisionTransformer" THEN "VisionTransformer"
    ELSE IF cls = "SwinTransformer" THEN "SwinTransformer"
    ELSE "fc"

\* the attribute a branch reads (in_features) and assigns
BranchAttr(branch) ==
    CASE branch \in {"AlexNet", "VGG", "DenseNet"} -> "classifier"
      [] branch = "VisionTransformer" -> "heads"
      [] branch = "SwinTransformer" -> "head"
      [] branch = "fc" -> "fc"

\* the body of a branch; the attribute it reads must exist (AttributeError
\* otherwise, see gm_head)
ApplyBranch(layers, branch, all_linears) ==
    CASE branch = "AlexNet" /\ all_linears ->
            SetAttr(layers, "classifier",
                    {Linear("classifier", 1, 4096), Linear("classifier", 4, 4096),
                     Linear("classifier", 6, num_classes)})
      [] branch = "VGG" /\ all_linears ->
            SetAttr(layers, "classifier",
                    {Linear("classifier", 0, 4096), Linear("classifier", 3, 4096),
                     Linear("classifier", 6, num_classes)})
      [] branch \in {"AlexNet", "VGG"} /\ ~all_linears ->
            SetLast(layers, "classifier", num_classes)
      [] OTHER ->
            SetAttr(layers, BranchAttr(branch),
                    {Linear(BranchAttr(branch), -1, num_classes)})

\* lines 93-104: look the name up and build the pretrained model
gm_build ==
    /\ pc = "get_model"
    /\ IF gm_args.model_name \in DOMAIN model_dir
       THEN /\ gm_model' = [class |-> model_dir[gm_args.model_name],
                            device |-> gm_args.device,
                            layers |-> Pretrained(model_dir[gm_args.model_name])]
            /\ pc' = "get_model_freeze"
            /\ UNCHANGED gm_error
       ELSE /\ gm_error' = "KeyError"
            /\ pc' = "get_model_raised"
            /\ UNCHANGED gm_model
    /\ UNCHANGED <<fsVars, gm_args, gm_applied, exceptModel>>

\* lines 106-108: freeze every parameter
gm_freeze ==
    /\ pc = "get_model_freeze"
    /\ gm_model' = [gm_model EXCEPT !.layers = Freeze(@)]
    /\ pc' = "get_model_head"
    /\ UNCHANGED <<fsVars, gm_args, gm_applied, gm_error, exceptModel>>

\* lines 110-155: create the classification layer and return
gm_head ==
    /\ pc = "get_model_head"
    /\ LET branch == HeadBranch(gm_model.class)
       IN  IF HasAttr(gm_model.layers, BranchAttr(branch))
           THEN /\ gm_model' =
                      [gm_model EXCEPT
                          !.layers = ApplyBranch(@, branch, gm_args.all_linears)]
                /\ gm_applied' = Append(gm_applied, branch)
                /\ pc' = "get_model_returned"
                /\ UNCHANGED gm_error
           ELSE /\ gm_error' = "AttributeError"
                /\ pc' = "get_model_raised"
                /\ UNCHANGED <<gm_model, gm_applied>>
    /\ UNCHANGED <<fsVars, gm_args, exceptModel>>

SupportedNames ==
    {"AlexNet", "VGG-16", "VGG-11", "GoogleNet", "Inception-v3", "ResNet-18",
     "DenseNet-161", "SWIN-v2-B"}

\* names outside the supported set, among them near misses of supported ones
UnknownNames == {"ResNet-50", "resnet18", "ViT-B-16", "VGG16"}

Devices == {"cpu", "cuda"}

InitModel ==
    /\ pc = "get_model"
    /\ gm_args \in [model_name : SupportedNames \cup UnknownNames,
                    device : Devices, all_linears : BOOLEAN]
    /\ gm_model = NoneObject
    /\ gm_applied = <<>>
    /\ gm_error = NoError
    /\ fsEmpty /\ uIdle /\ dlIdle /\ tIdle /\ teIdle

NextModel == gm_build \/ gm_freeze \/ gm_head

SpecModel == InitModel /\ [][NextModel]_vars

\* the layer that produces the output of each architecture
OutputLayer(layers) ==
    LET attr == IF HasAttr(layers, "classifier") THEN "classifier"
                ELSE IF HasAttr(layers, "fc") THEN "fc" ELSE "head"
    IN  CHOOSE l \in layers :
            /\ l.attr = attr
            /\ \A o \in layers : o.attr = attr => o.idx <= l.idx

\* C6: a call with a supported name returns, after exactly one head
\* replacement branch, a model whose output layer is a newly attached linear
\* layer of width 2, whose newly attached layers are trainable and whose other
\* layers are all frozen; a call with any other name raises the lookup error
\* before a model is built, and no supported name raises.
C6_HeadAndFreeze ==
    /\ pc = "get_model_returned" =>
          /\ gm_args.model_name \in SupportedNames
          /\ Len(gm_applied) = 1
          /\ OutputLayer(gm_model.layers).out_features = 2
          /\ ~OutputLayer(gm_model.layers).pretrained
          /\ \A l \in gm_model.layers : l.requires_grad = ~l.pretrained
          /\ \E l \in gm_model.layers : l.pretrained
    /\ pc = "get_model_raised" =>
          /\ gm_args.model_name \notin SupportedNames
          /\ gm_error = "KeyError"
          /\ gm_model = NoneObject
    /\ (pc = "get_model" /\ gm_args.model_name \notin SupportedNames) =>
          gm_model = NoneObject

\* a multi-layer head rebuilt whole, and one with only its last layer replaced
C6_Witness ==
    /\ pc = "get_model_returned"
    /\ gm_args.model_name = "VGG-11"
    /\ ~gm_args.all_linears
    /\ Cardinality({l \in gm_model.layers : l.requires_grad}) = 1
    /\ Cardinality({l \in gm_model.layers : l.attr = "classifier"}) = 3

-----------------------------------------------------------------------------
(* train *)

LogEvery == 100

\* sub in s
Contains(s, sub) ==
    \E k \in 1..(Len(s) - Len(sub) + 1) : SubSeq(s, k, k + Len(sub) - 1) = sub

MODELS == <<"m", "o", "d", "e", "l", "s">>

\* an entry of log: what was completed, in which epoch (0-based, as the loop
\* variable), on which batch of the pass (0-based; 0 where there is none)
Ev(kind, e, n) == [ev |-> kind, epoch |-> e, batch |-> n]

\* f'{class name}_lr{str(lr).split(".")[1]}_epoch{num_epochs}' + '_augment'
FolderName(a) ==
    a.model.class \o <<"_", "l", "r">> \o splitDot1(a.lr)
        \o <<"_", "e", "p", "o", "c", "h">> \o str(a.num_epochs)
        \o (IF a.augment THEN <<"_", "a", "u", "g", "m", "e", "n", "t">> ELSE <<>>)

\* f'{class name}.pt'
CheckpointName(a) == a.model.class \o <<".", "p", "t">>

\* the checkpoint torch.save writes
Checkpoint(complete) ==
    [kind |-> "checkpoint", run_no |-> run_no, epochs |-> t_args.num_epochs,
     complete |-> complete]

\* the file map after a write to path
WriteFile(path, content) ==
    [q \in DOMAIN files \cup {path} |-> IF q = path THEN content ELSE files[q]]

\* an exception leaves train
Raise(error) ==
    /\ pc' = "train_raised"
    /\ t_error' = error

\* lines 164-176: device, aux_logits, checkpoint to start from, monitors
train_setup ==
    /\ pc = "train"
    /\ IF t_args.load_ckpt_path # None /\ t_args.load_ckpt_path \notin DOMAIN files
       THEN /\ Raise("FileNotFoundError")
            /\ UNCHANGED <<t_model, log, save_ckpt_path>>
       ELSE /\ t_model' =
                  IF Contains(t_args.model.class, <<"I","n","c","e","p","t","i","o","n">>)
                  THEN [t_args.model EXCEPT !.aux_logits = FALSE]
                  ELSE t_args.model
            /\ log' = Append(log, Ev("setup", 0, 0))
            /\ save_ckpt_path' = t_args.save_ckpt_path
            /\ pc' = "epoch"
            /\ UNCHANGED t_error
    /\ UNCHANGED <<fsVars, t_args, epoch, b, i, batch_ops, optimizer_steps,
                   scheduler_steps, sink, metrics, save_ckpt_folder, created,
                   run_no, saved, exceptTrain>>

MoreEpochsInclusive == epoch <= t_args.num_epochs

\* line 178: for epoch in range(num_epochs) has another round
MoreEpochs == epoch < t_args.num_epochs

\* lines 178-188: the head of the epoch loop (epoch counts the epochs done,
\* which is the loop variable while the loop runs)
train_epoch ==
    /\ pc = "epoch"
    /\ IF MoreEpochs
       THEN /\ i' = 0
            /\ b' = 0
            /\ pc' = "train_batch"
       ELSE /\ pc' = "save_path"
            /\ UNCHANGED <<i, b>>
    /\ UNCHANGED <<fsVars, t_args, t_model, epoch, batch_ops, log,
                   optimizer_steps, scheduler_steps, sink, metrics,
                   save_ckpt_path, save_ckpt_folder, t_error, created,
                   run_no, saved, exceptTrain>>

\* lines 190-193: the next batch of train_loader, if any
train_batch ==
    /\ pc = "train_batch"
    /\ pc' = IF b < t_args.n_train THEN "zero_grad" ELSE "scheduler"
    /\ batch_ops' = <<>>
    /\ UNCHANGED <<fsVars, t_args, t_model, epoch, b, i, log, optimizer_steps,
                   scheduler_steps, sink, metrics, save_ckpt_path,
                   save_ckpt_folder, t_error, created, run_no, saved,
                   exceptTrain>>

\* one statement of a batch: it is recorded and control moves on
BatchOp(at, op, next) ==
    /\ pc = at
    /\ batch_ops' = Append(batch_ops, op)
    /\ pc' = next
    /\ UNCHANGED <<fsVars, t_args, t_model, epoch, b, i, log, scheduler_steps,
                   sink, metrics, save_ckpt_path, save_ckpt_folder, t_error,
                   created, run_no, saved, exceptTrain>>

\* line 196
zero_grad == BatchOp("zero_grad", "zero_grad", "forward") /\ UNCHANGED optimizer_steps

\* lines 199-200
forward == BatchOp("forward", "forward", "loss") /\ UNCHANGED optimizer_steps

\* line 201
loss == BatchOp("loss", "loss", "backward") /\ UNCHANGED optimizer_steps

backwardWithoutStep ==
    BatchOp("backward", "backward", "update") /\ UNCHANGED optimizer_steps

\* line 204
backward == BatchOp("backward", "backward", "optimizer_step") /\ UNCHANGED optimizer_steps

\* line 205
optimizer_step ==
    /\ BatchOp("optimizer_step", "step", "update")
    /\ optimizer_steps' = optimizer_steps + 1

ShouldLogNoRestart == (epoch * t_args.n_train + i) % LogEvery = 0 /\ t_args.run

\* line 214: the guard of the push
ShouldLog == i % LogEvery = 0 /\ t_args.run

\* lines 215-217: run[...]["batch/..."].append(...), the value standing for
\* the batch it was computed on
Push(series) ==
    [loss |-> Append(series.loss, <<epoch, b>>),
     acc |-> Append(series.acc, <<epoch, b>>),
     auc |-> Append(series.auc, <<epoch, b>>)]

\* lines 207-218: running loss and metrics, the push, i += 1
train_update ==
    /\ pc = "update"
    /\ IF ShouldLog /\ ~t_args.logger
       THEN /\ Raise("AttributeError")
            /\ UNCHANGED <<batch_ops, sink, i, b, log>>
       ELSE /\ batch_ops' = batch_ops \o <<"update">>
                                \o (IF ShouldLog THEN <<"push">> ELSE <<>>)
            /\ sink' = IF ShouldLog THEN Push(sink) ELSE sink
            /\ i' = i + 1
            /\ b' = b + 1
            /\ log' = Append(log, Ev("train", epoch, b))
            /\ pc' = "train_batch"
            /\ UNCHANGED t_error
    /\ UNCHANGED <<fsVars, t_args, t_model, epoch, optimizer_steps,
                   scheduler_steps, metrics, save_ckpt_path, save_ckpt_folder,
                   created, run_no, saved, exceptTrain>>

\* lines 220-234: scheduler.step(), the train metrics, model.eval()
scheduler ==
    /\ pc = "scheduler"
    /\ scheduler_steps' = scheduler_steps + 1
    /\ metrics' = [metrics EXCEPT !.train = epoch + 1]
    /\ log' = Append(log, Ev("sched", epoch, 0))
    /\ b' = 0
    /\ batch_ops' = <<>>
    /\ pc' = "val_batch"
    /\ UNCHANGED <<fsVars, t_args, t_model, epoch, i, optimizer_steps, sink,
                   save_ckpt_path, save_ckpt_folder, t_error, created, run_no,
                   saved, exceptTrain>>

\* lines 238-241: the next batch of val_loader, if any
val_batch ==
    /\ pc = "val_batch"
    /\ pc' = IF b < t_args.n_val THEN "val_forward" ELSE "epoch_end"
    /\ batch_ops' = <<>>
    /\ UNCHANGED <<fsVars, t_args, t_model, epoch, b, i, log, optimizer_steps,
                   scheduler_steps, sink, metrics, save_ckpt_path,
                   save_ckpt_folder, t_error, created, run_no, saved,
                   exceptTrain>>

\* lines 244-245
val_forward == BatchOp("val_forward", "forward", "val_loss") /\ UNCHANGED optimizer_steps

\* line 246
val_loss == BatchOp("val_loss", "loss", "val_update") /\ UNCHANGED optimizer_steps

\* lines 249-251
val_update ==
    /\ pc = "val_update"
    /\ batch_ops' = Append(batch_ops, "update")
    /\ log' = Append(log, Ev("val", epoch, b))
    /\ b' = b + 1
    /\ pc' = "val_batch"
    /\ UNCHANGED <<fsVars, t_args, t_model, epoch, i, optimizer_steps,
                   scheduler_steps, sink, metrics, save_ckpt_path,
                   save_ckpt_folder, t_error, created, run_no, saved,
                   exceptTrain>>

\* lines 253-261: the validation metrics, the printed line, the next epoch
epoch_end ==
    /\ pc = "epoch_end"
    /\ metrics' = [metrics EXCEPT !.val = epoch + 1]
    /\ epoch' = epoch + 1
    /\ pc' = "epoch"
    /\ UNCHANGED <<fsVars, t_args, t_model, b, i, batch_ops, log,
                   optimizer_steps, scheduler_steps, sink, save_ckpt_path,
                   save_ckpt_folder, t_error, created, run_no, saved,
                   exceptTrain>>

\* lines 264-270: the path to save to, synthesized when none was given
save_path ==
    /\ pc = "save_path"
    /\ IF save_ckpt_path # None
       THEN /\ pc' = "save"
            /\ UNCHANGED <<save_ckpt_folder, save_ckpt_path, t_error>>
       ELSE IF splitCount(t_args.lr) < 2
       THEN /\ Raise("IndexError")
            /\ UNCHANGED <<save_ckpt_folder, save_ckpt_path>>
       ELSE /\ save_ckpt_folder' = uniquify(join(MODELS, FolderName(t_args)))
            /\ save_ckpt_path' = join(save_ckpt_folder', CheckpointName(t_args))
            /\ pc' = "save_mkdirs"
            /\ UNCHANGED t_error
    /\ UNCHANGED <<fsVars, t_args, t_model, epoch, b, i, batch_ops, log,
                   optimizer_steps, scheduler_steps, sink, metrics, created,
                   run_no, saved, exceptTrain>>

\* lines 272-275: create 'models' and the model folder when they do not exist
save_mkdirs ==
    /\ pc = "save_mkdirs"
    /\ LET d1 == IF ~exists(MODELS) THEN makedirs(dirs, MODELS) ELSE dirs
           d2 == IF save_ckpt_folder \notin d1 /\ save_ckpt_folder \notin DOMAIN files
                 THEN makedirs(d1, save_ckpt_folder) ELSE d1
       IN  /\ dirs' = d2
           /\ created' = created \cup (d2 \ dirs)
    /\ pc' = "save"
    /\ UNCHANGED <<files, t_args, t_model, epoch, b, i, batch_ops, log,
                   optimizer_steps, scheduler_steps, sink, metrics,
                   save_ckpt_path, save_ckpt_folder, t_error, run_no, saved,
                   exceptTrain>>

\* torch.save can write when the metrics are bound and the target's
\* directory exists
CanSave ==
    /\ metrics.train > 0 /\ metrics.val > 0
    /\ Writable(dirs, save_ckpt_path)
    /\ save_ckpt_path \notin dirs

\* lines 277-290: torch.save of the bundle, and the return
save ==
    /\ pc = "save"
    /\ IF metrics.train = 0 \/ metrics.val = 0
       THEN /\ Raise("UnboundLocalError")
            /\ UNCHANGED <<files, created, log, saved>>
       ELSE IF ~CanSave
       THEN /\ Raise("RuntimeError")
            /\ UNCHANGED <<files, created, log, saved>>
       ELSE /\ files' = WriteFile(save_ckpt_path, Checkpoint(TRUE))
            /\ created' = created \cup ({save_ckpt_path} \ DOMAIN files)
            /\ log' = Append(log, Ev("save", epoch, 0))
            /\ saved' = Append(saved, [path |-> save_ckpt_path, run_no |-> run_no])
            /\ pc' = "train_returned"
            /\ UNCHANGED t_error
    /\ UNCHANGED <<dirs, t_args, t_model, epoch, b, i, batch_ops,
                   optimizer_steps, scheduler_steps, sink, metrics,
                   save_ckpt_path, save_ckpt_folder, run_no, exceptTrain>>

\* torch.save fails after it opened its target: a truncated file is left
save_interrupted ==
    /\ pc = "save"
    /\ CanSave
    /\ files' = WriteFile(save_ckpt_path, Checkpoint(FALSE))
    /\ created' = created \cup ({save_ckpt_path} \ DOMAIN files)
    /\ Raise("OSError")
    /\ UNCHANGED <<dirs, t_args, t_model, epoch, b, i, batch_ops, log,
                   optimizer_steps, scheduler_steps, sink, metrics,
                   save_ckpt_path, save_ckpt_folder, run_no, saved,
                   exceptTrain>>

\* the statements whose library call may raise (a numeric or device failure
\* in a batch, the scheduler, the file system); nothing catches it
MayRaise ==
    {"forward", "loss", "backward", "optimizer_step", "scheduler",
     "val_forward", "val_loss", "save_mkdirs", "save"}

train_raise ==
    /\ pc \in MayRaise
    /\ Raise("Exception")
    /\ UNCHANGED <<fsVars, t_args, t_model, epoch, b, i, batch_ops, log,
                   optimizer_steps, scheduler_steps, sink, metrics,
                   save_ckpt_path, save_ckpt_folder, created, run_no, saved,
                   exceptTrain>>

\* the caller runs train again with the same arguments
train_again ==
    /\ pc \in {"train_returned", "train_raised"}
    /\ run_no < MaxRuns
    /\ run_no' = run_no + 1
    /\ pc' = "train"
    /\ t_model' = NoneObject /\ epoch' = 0 /\ b' = 0 /\ i' = 0
    /\ batch_ops' = <<>> /\ log' = <<>>
    /\ optimizer_steps' = 0 /\ scheduler_steps' = 0
    /\ sink' = EmptySink /\ metrics' = [train |-> 0, val |-> 0]
    /\ save_ckpt_path' = None /\ save_ckpt_folder' = None
    /\ t_error' = NoError /\ created' = {}
    /\ UNCHANGED <<fsVars, t_args, saved, exceptTrain>>

NextTrain ==
    \/ train_setup \/ train_epoch \/ train_batch
    \/ zero_grad \/ forward \/ loss \/ backward \/ optimizer_step
    \/ train_update \/ scheduler
    \/ val_batch \/ val_forward \/ val_loss \/ val_update \/ epoch_end
    \/ save_path \/ save_mkdirs \/ save \/ save_interrupted
    \/ train_raise

ResNet == [class |-> <<"R", "e", "s", "N", "e", "t">>, aux_logits |-> FALSE]
Inception3 ==
    [class |-> <<"I", "n", "c", "e", "p", "t", "i", "o", "n", "3">>,
     aux_logits |-> TRUE]

\* str(optimizer.defaults["lr"]) of 0.5, 0.001 and 1e-05
LR_05 == <<"0", ".", "5">>
LR_0001 == <<"0", ".", "0", "0", "1">>
LR_1e05 == <<"1", "e", "-", "0", "5">>

\* a caller's checkpoint path, in a directory that may or may not exist
GivenPath == <<"o", "/", "m", ".", "p", "t">>
GivenDir == <<"o">>

\* a checkpoint left at GivenPath by an earlier program run
EarlierCheckpoint ==
    [q \in {GivenPath} |->
        [kind |-> "checkpoint", run_no |-> 0, epochs |-> 1, complete |-> TRUE]]

\* the sink: none, run with its logger, run without a logger
Sinks == {<<FALSE, FALSE>>, <<TRUE, TRUE>>, <<TRUE, FALSE>>}

TrainArgs(ns, nts, nvs, sinks, saves, loads, augments, lrs, models) ==
    {[num_epochs |-> n, n_train |-> nt, n_val |-> nv, run |-> sk[1],
      logger |-> sk[2], save_ckpt_path |-> sp, load_ckpt_path |-> lp,
      augment |-> au, lr |-> lr, model |-> m] :
        n \in ns, nt \in nts, nv \in nvs, sk \in sinks, sp \in saves,
        lp \in loads, au \in augments, lr \in lrs, m \in models}

\* the state at the first call of train
StartTrain ==
    /\ pc = "train"
    /\ t_model = NoneObject /\ epoch = 0 /\ b = 0 /\ i = 0
    /\ batch_ops = <<>> /\ log = <<>>
    /\ optimizer_steps = 0 /\ scheduler_steps = 0
    /\ sink = EmptySink /\ metrics = [train |-> 0, val |-> 0]
    /\ save_ckpt_path = None /\ save_ckpt_folder = None
    /\ t_error = NoError /\ created = {}
    /\ run_no = 1 /\ saved = <<>>
    /\ uIdle /\ dlIdle /\ gmIdle /\ teIdle

InitTrain ==
    /\ t_args \in TrainArgs(0..MaxEpochs, 0..MaxTrainBatches, 0..MaxValBatches,
                            Sinks, {None, GivenPath}, {None, GivenPath},
                            BOOLEAN, {LR_05, LR_1e05}, {ResNet, Inception3})
    /\ \/ dirs \in {{}, {MODELS}, {MODELS, GivenDir}} /\ files = <<>>
       \/ dirs = {MODELS, GivenDir} /\ files = EarlierCheckpoint
    /\ StartTrain

SpecTrain == InitTrain /\ [][NextTrain]_vars

\* the first calls of train with a long train_loader
InitLog ==
    /\ t_args \in TrainArgs(1..MaxEpochs,
                            {k * LogEvery + d : k \in 0..MaxLogPeriods, d \in 0..1},
                            {1}, Sinks, {None}, {None}, {FALSE}, {LR_05},
                            {ResNet})
    /\ dirs = {} /\ files = <<>>
    /\ StartTrain

SpecLog == InitLog /\ [][NextTrain]_vars

\* repeated calls of train that give no save path and share their arguments
InitRepeat ==
    /\ t_args \in TrainArgs(0..MaxEpochs, {1}, {1}, {<<FALSE, FALSE>>}, {None},
                            {None}, BOOLEAN, {LR_05, LR_0001}, {ResNet})
    /\ dirs \in {{}, {MODELS}, {MODELS, join(MODELS, FolderName(t_args))}}
    /\ files = <<>>
    /\ StartTrain

NextRepeat == NextTrain \/ train_again

SpecRepeat == InitRepeat /\ [][NextRepeat]_vars

IsPrefix(s, t) == Len(s) <= Len(t) /\ \A k \in 1..Len(s) : s[k] = t[k]

Count(s, kind) == Cardinality({k \in 1..Len(s) : s[k].ev = kind})

\* Setup, then per epoch every train batch, the scheduler step and every
\* validation batch, then the save
ExpectedLog(N, B, V) ==
    [q \in 1..(N * (B + 1 + V) + 2) |->
        IF q = 1 THEN Ev("setup", 0, 0)
        ELSE IF q = N * (B + 1 + V) + 2 THEN Ev("save", N, 0)
        ELSE LET e == (q - 2) \div (B + 1 + V)
                 k == (q - 2) % (B + 1 + V)
             IN  IF k < B THEN Ev("train", e, k)
                 ELSE IF k = B THEN Ev("sched", e, 0)
                 ELSE Ev("val", e, k - B - 1)]

LogInOrder ==
    IsPrefix(log, ExpectedLog(t_args.num_epochs, t_args.n_train, t_args.n_val))

WrittenByThisRun == {q \in DOMAIN files : files[q].run_no = run_no}

\* C1: the steps of a call of train happen in the order Setup, then for each
\* epoch all its train batches and then all its validation batches, then the
\* save; a call that returns has done all of them and written its checkpoint
\* once; nothing is written before the last validation batch of the last epoch.
C1_RunOrder ==
    /\ LogInOrder
    /\ pc = "train_returned" =>
          /\ log = ExpectedLog(t_args.num_epochs, t_args.n_train, t_args.n_val)
          /\ Count(log, "save") = 1
          /\ WrittenByThisRun = {save_ckpt_path}
          /\ files[save_ckpt_path].complete
    /\ WrittenByThisRun # {} =>
          /\ WrittenByThisRun = {save_ckpt_path}
          /\ Count(log, "train") = t_args.num_epochs * t_args.n_train
          /\ Count(log, "val") = t_args.num_epochs * t_args.n_val
          /\ t_args.num_epochs >= 1

\* a call with two epochs of two train and two validation batches returned
C1_Witness ==
    /\ pc = "train_returned"
    /\ t_args.num_epochs = 2 /\ t_args.n_train = 2 /\ t_args.n_val = 2
    /\ Len(log) = 12
    /\ log[6] = Ev("val", 0, 1) /\ log[7] = Ev("train", 1, 0)

\* C3 (as claimed): a call of train that has raised has left no file or
\* directory that it created.
C3_NoArtifactOnAbort ==
    pc = "train_raised" => created = {}

InTrainPass ==
    pc \in {"train_batch", "zero_grad", "forward", "loss", "backward",
            "optimizer_step", "update", "scheduler"}

InValPass ==
    pc \in {"val_batch", "val_forward", "val_loss", "val_update", "epoch_end"}

\* C4: a train batch does zero_grad, forward, loss, backward, step in this
\* order with one optimizer step; the scheduler steps once per epoch, between
\* the last train batch and the first validation batch; a validation batch
\* does no backward, no optimizer step, no scheduler step; a returned call
\* with N epochs of B train batches has stepped the optimizer N * B times and
\* the scheduler N times.
C4_StepsPerBatchAndEpoch ==
    /\ InTrainPass =>
          /\ IsPrefix(batch_ops,
                      <<"zero_grad", "forward", "loss", "backward", "step",
                        "update", "push">>)
          /\ scheduler_steps = epoch
          /\ optimizer_steps =
                epoch * t_args.n_train + b + (IF pc = "update" THEN 1 ELSE 0)
    /\ InValPass =>
          /\ IsPrefix(batch_ops, <<"forward", "loss", "update">>)
          /\ scheduler_steps = epoch + 1
          /\ optimizer_steps = (epoch + 1) * t_args.n_train
    /\ scheduler_steps = Count(log, "sched")
    /\ \A k \in 1..Len(log) :
          log[k].ev = "sched" =>
              /\ Cardinality({h \in 1..(k - 1) : log[h].ev = "train"
                                  /\ log[h].epoch = log[k].epoch}) = t_args.n_train
              /\ \A h \in 1..(k - 1) :
                     log[h].ev = "val" => log[h].epoch < log[k].epoch
    /\ pc = "train_returned" =>
          /\ optimizer_steps = t_args.num_epochs * t_args.n_train
          /\ scheduler_steps = t_args.num_epochs

\* a returned call whose validation passes are longer than its train passes
C4_Witness ==
    /\ pc = "train_returned"
    /\ t_args.num_epochs = 2 /\ t_args.n_train = 1 /\ t_args.n_val = 2
    /\ optimizer_steps = 2 /\ scheduler_steps = 2

\* the train batches of log whose index in their epoch is a multiple of 100
PushedBatches ==
    LET at == SelectSeq(log, LAMBDA x : x.ev = "train" /\ x.batch % 100 = 0)
    IN  [k \in 1..Len(at) |-> <<at[k].epoch, at[k].batch>>]

Finished == IF pc \in {"train_returned", "train_raised"} THEN run_no ELSE run_no - 1

BaseFolder == join(MODELS, FolderName(t_args))

\* C10: the completed calls have written their checkpoints to pairwise
\* distinct folders, the base folder or the base folder with a number
\* appended; every one of these checkpoints is still the file its call wrote;
\* the complete checkpoint files are as many as the completed calls, and when
\* no call has raised there is no other file.
C10_RepeatsNeverOverwrite ==
    /\ \A k \in 1..Len(saved) :
          /\ saved[k].path \in DOMAIN files
          /\ files[saved[k].path].run_no = saved[k].run_no
          /\ files[saved[k].path].complete
          /\ \/ dirname(saved[k].path) = BaseFolder
             \/ \E n \in 1..(MaxRuns + 1) :
                    dirname(saved[k].path) = BaseFolder \o <<"_">> \o str(n)
          /\ \A h \in 1..Len(saved) :
                h # k => dirname(saved[h].path) # dirname(saved[k].path)
    /\ Cardinality({q \in DOMAIN files : files[q].complete}) = Len(saved)
    /\ Finished = Len(saved) => Cardinality(DOMAIN files) = Len(saved)

\* three completed calls in a row: the base folder, then _1, then _2
C10_Witness ==
    /\ Len(saved) = 3
    /\ dirname(saved[1].path) = BaseFolder
    /\ dirname(saved[2].path) = BaseFolder \o <<"_", "1">>
    /\ dirname(saved[3].path) = BaseFolder \o <<"_", "2">>

-----------------------------------------------------------------------------
(* test *)

\* len(test_loader): the batches of a DataLoader without drop_last
NumBatches(a) == (a.n + a.batch_size - 1) \div a.batch_size

\* the samples of batch k (1-based), in the order the loader yields them.
\* Samples are numbered in that order, so a shuffle is a renumbering.
BatchSamples(a, k) ==
    LET first == (k - 1) * a.batch_size + 1
        last == IF k * a.batch_size < a.n THEN k * a.batch_size ELSE a.n
    IN  [h \in 1..(last - first + 1) |-> first + h - 1]

\* preds.detach().tolist(): the predicted class of every sample of the batch
BatchPreds(a, k) ==
    [h \in 1..Len(BatchSamples(a, k)) |-> a.preds[BatchSamples(a, k)[h]]]

\* labels.detach().tolist()
BatchLabels(a, k) ==
    [h \in 1..Len(BatchSamples(a, k)) |-> a.labels[BatchSamples(a, k)[h]]]

ExtendOverwriting(list, items) == items

\* list += items
Extend(list, items) == list \o items

\* accuracy.update(outputs, labels)
AccuracyUpdate(acc, preds, labels) ==
    [num_correct |-> acc.num_correct
                        + Cardinality({h \in 1..Len(preds) : preds[h] = labels[h]}),
     num_total |-> acc.num_total + Len(preds)]

TestRaise(error) ==
    /\ pc' = "test_raised"
    /\ te_error' = error

\* lines 298-325: load the checkpoint, monitors, eval mode, empty lists
test_setup ==
    /\ pc = "test"
    /\ IF te_args.load_ckpt_path # None /\ te_args.load_ckpt_path \notin DOMAIN files
       THEN /\ TestRaise("FileNotFoundError")
            /\ UNCHANGED <<loss_arr, accuracy, preds_list, labels_list>>
       ELSE /\ loss_arr' = <<>>
            /\ accuracy' = NoAccuracy
            /\ preds_list' = <<>>
            /\ labels_list' = <<>>
            /\ pc' = "test_batch"
            /\ UNCHANGED te_error
    /\ UNCHANGED <<fsVars, te_args, te_b, save_outputs_path, save_metrics_path,
                   exceptTest>>

\* lines 328-346: the loop over test_loader, one batch per step
test_batch ==
    /\ pc = "test_batch"
    /\ IF te_b < NumBatches(te_args)
       THEN /\ loss_arr' = Append(loss_arr, te_b + 1)
            /\ accuracy' = AccuracyUpdate(accuracy, BatchPreds(te_args, te_b + 1),
                                          BatchLabels(te_args, te_b + 1))
            /\ preds_list' = Extend(preds_list, BatchPreds(te_args, te_b + 1))
            /\ labels_list' = Extend(labels_list, BatchLabels(te_args, te_b + 1))
            /\ te_b' = te_b + 1
            /\ UNCHANGED pc
       ELSE /\ pc' = "test_metrics"
            /\ UNCHANGED <<loss_arr, accuracy, preds_list, labels_list, te_b>>
    /\ UNCHANGED <<fsVars, te_args, save_outputs_path, save_metrics_path,
                   te_error, exceptTest>>

\* lines 349-362: the test metrics and the GFLOPS of the first batch's shape;
\* next(iter(test_loader)) raises on an empty loader
test_metrics ==
    /\ pc = "test_metrics"
    /\ IF NumBatches(te_args) = 0
       THEN TestRaise("StopIteration")
       ELSE pc' = "test_paths" /\ UNCHANGED te_error
    /\ UNCHANGED <<fsVars, te_args, te_b, preds_list, labels_list, loss_arr,
                   accuracy, save_outputs_path, save_metrics_path, exceptTest>>

OUTPUTS_CSV == <<"_", "o", "u", "t", "p", "u", "t", "s", ".", "c", "s", "v">>
METRICS_CSV == <<"_", "m", "e", "t", "r", "i", "c", "s", ".", "c", "s", "v">>

\* lines 364-381: the two paths to write to, and their folder
test_paths ==
    /\ pc = "test_paths"
    /\ IF te_args.load_ckpt_path # None
       THEN /\ save_outputs_path' = splitDot0(te_args.load_ckpt_path) \o OUTPUTS_CSV
            /\ save_metrics_path' = splitDot0(te_args.load_ckpt_path) \o METRICS_CSV
            /\ UNCHANGED dirs
       ELSE LET save_folder == join(MODELS, te_args.model.class)
                d1 == IF ~exists(MODELS) THEN makedirs(dirs, MODELS) ELSE dirs
                d2 == IF save_folder \notin d1 /\ save_folder \notin DOMAIN files
                      THEN makedirs(d1, save_folder) ELSE d1
            IN  /\ save_outputs_path' =
                      uniquify(join(save_folder, te_args.model.class \o OUTPUTS_CSV))
                /\ save_metrics_path' =
                      uniquify(join(save_folder, te_args.model.class \o METRICS_CSV))
                /\ dirs' = d2
    /\ pc' = "test_write"
    /\ UNCHANGED <<files, te_args, te_b, preds_list, labels_list, loss_arr,
                   accuracy, te_error, exceptTest>>

\* the two tables
OutputsTable == [kind |-> "outputs", rows |-> Len(preds_list), complete |-> TRUE]
MetricsTable == [kind |-> "metrics", rows |-> 1, complete |-> TRUE]

\* lines 383-388: write both tables and return
test_write ==
    /\ pc = "test_write"
    /\ IF Writable(dirs, save_outputs_path) /\ Writable(dirs, save_metrics_path)
       THEN /\ files' =
                  [q \in DOMAIN files \cup {save_outputs_path, save_metrics_path} |->
                      IF q = save_metrics_path THEN MetricsTable
                      ELSE IF q = save_outputs_path THEN OutputsTable
                      ELSE files[q]]
            /\ pc' = "test_returned"
            /\ UNCHANGED te_error
       ELSE /\ TestRaise("OSError")
            /\ UNCHANGED files
    /\ UNCHANGED <<dirs, te_args, te_b, preds_list, labels_list, loss_arr,
                   accuracy, save_outputs_path, save_metrics_path, exceptTest>>

\* a batch's forward pass or loss, or the FLOP count, raises
test_raise ==
    /\ \/ pc = "test_batch" /\ te_b < NumBatches(te_args)
       \/ pc = "test_metrics"
    /\ TestRaise("Exception")
    /\ UNCHANGED <<fsVars, te_args, te_b, preds_list, labels_list, loss_arr,
                   accuracy, save_outputs_path, save_metrics_path, exceptTest>>

NextTest ==
    \/ test_setup \/ test_batch \/ test_metrics \/ test_paths \/ test_write
    \/ test_raise

\* checkpoint paths a caller may pass: plain, relative to ".", with a dot in
\* a directory name, with a second dot in the file name
LoadPaths ==
    {<<"m", "/", "R", ".", "p", "t">>,
     <<".", "/", "m", "/", "R", ".", "p", "t">>,
     <<"m", ".", "2", "/", "R", ".", "p", "t">>,
     <<"m", "/", "R", ".", "2", ".", "p", "t">>}

Classes == {0, 1}

TestFolder == join(MODELS, ResNet.class)
TestOutputs == join(TestFolder, ResNet.class \o OUTPUTS_CSV)
TestMetrics == join(TestFolder, ResNet.class \o METRICS_CSV)

\* tables left by earlier calls of test
EarlierTables(paths) == [q \in paths |-> MetricsTable]

InitTest ==
    /\ pc = "test"
    /\ \E n \in 0..MaxSamples :
          te_args \in [load_ckpt_path : LoadPaths \cup {None}, model : {ResNet},
                       n : {n}, batch_size : 1..MaxBatchSize,
                       labels : [1..n -> Classes], preds : [1..n -> Classes]]
    /\ IF te_args.load_ckpt_path # None
       THEN /\ dirs = Ancestors(te_args.load_ckpt_path)
            /\ \/ files = <<>>
               \/ files = [q \in {te_args.load_ckpt_path} |->
                              [kind |-> "checkpoint", run_no |-> 0, epochs |-> 1,
                               complete |-> TRUE]]
       ELSE \/ dirs \in {{}, {MODELS}, {MODELS, TestFolder}} /\ files = <<>>
            \/ /\ dirs = {MODELS, TestFolder}
               /\ \E paths \in (SUBSET {TestOutputs, TestMetrics,
                                        Numbered(splitext(TestOutputs)[1],
                                                 splitext(TestOutputs)[2], 1)})
                                   \ {{}} :
                      files = EarlierTables(paths)
    /\ te_b = 0
    /\ preds_list = <<>> /\ labels_list = <<>> /\ loss_arr = <<>>
    /\ accuracy = NoAccuracy
    /\ save_outputs_path = None /\ save_metrics_path = None
    /\ te_error = NoError
    /\ uIdle /\ dlIdle /\ gmIdle /\ tIdle

SpecTest == InitTest /\ [][NextTest]_vars

\* C5 (as claimed): with a checkpoint path the two tables go to that path
\* with its extension removed, followed by _outputs.csv and _metrics.csv;
\* without one they go under models/<class name>/ to paths that do not exist
\* when they are written.
C5_TablePaths ==
    pc \in {"test_write", "test_returned"} =>
        /\ te_args.load_ckpt_path # None =>
              /\ save_outputs_path = splitext(te_args.load_ckpt_path)[1] \o OUTPUTS_CSV
              /\ save_metrics_path = splitext(te_args.load_ckpt_path)[1] \o METRICS_CSV
        /\ te_args.load_ckpt_path = None =>
              /\ dirname(save_outputs_path) = join(MODELS, te_args.model.class)
              /\ dirname(save_metrics_path) = join(MODELS, te_args.model.class)
              /\ save_outputs_path # save_metrics_path
              /\ pc = "test_write" =>
                    ~exists(save_outputs_path) /\ ~exists(save_metrics_path)

Min(x, y) == IF x < y THEN x ELSE y

\* C9: after any number of batches the prediction list and the label list
\* have the length of the samples processed so far and entry k of both is the
\* prediction and the label of the k-th sample in batch order; the loss list
\* and the accuracy monitor cover exactly these batches; the outputs table of
\* a returned call has one row per test sample.
C9_ListsAligned ==
    /\ pc \in {"test_batch", "test_metrics", "test_paths", "test_write",
               "test_returned"} =>
          /\ Len(preds_list) = Min(te_b * te_args.batch_size, te_args.n)
          /\ Len(labels_list) = Len(preds_list)
          /\ \A k \in 1..Len(preds_list) :
                /\ preds_list[k] = te_args.preds[k]
                /\ labels_list[k] = te_args.labels[k]
          /\ Len(loss_arr) = te_b
          /\ accuracy.num_total = Len(preds_list)
          /\ accuracy.num_correct =
                Cardinality({k \in 1..Len(preds_list) :
                                te_args.preds[k] = te_args.labels[k]})
    /\ pc \in {"test_metrics", "test_paths", "test_write", "test_returned"} =>
          Len(preds_list) = te_args.n
    /\ pc = "test_returned" =>
          /\ files[save_outputs_path].kind = "outputs"
          /\ files[save_outputs_path].rows = te_args.n

\* a returned call over two batches of different sizes, with a wrong prediction
C9_Witness ==
    /\ pc = "test_returned"
    /\ te_args.n = 3 /\ te_args.batch_size = 2
    /\ preds_list = <<0, 1, 1>> /\ labels_list = <<0, 0, 1>>
    /\ accuracy = [num_correct |-> 2, num_total |-> 3]

=============================================================================
